---- MODULE Spec2Model ----
(***************************************************************************)
(* A model of common_utils.py: icon/pixmap resolution, the geometry        *)
(* persistence of SizePersistedDialog, CheckableTableWidgetItem and the    *)
(* clear-settings workflow of PrefsViewerDialog.                           *)
(*                                                                         *)
(* Strings are sequences of tokens.  A token is a run of characters that   *)
(* the code never looks inside ("images", "namespaced", "x", ...) or one   *)
(* of the separator characters "/" and ":".                                *)
(***************************************************************************)
EXTENDS Integers, Sequences, FiniteSets, TLC

VARIABLES
    plugin_name,            \* global plugin_name (line 28)
    plugin_icon_resources,  \* global plugin_icon_resources (line 31)
    existing,               \* the paths for which os.path.exists is true
    call,                   \* the last icon call: operation, argument, result
    gprefs,                 \* calibre.gui2.gprefs: key -> stored geometry blob
    dialogs,                \* the SizePersistedDialog instances
    closed,                 \* per key, the last dialog_closing: who and what geometry
    items,                  \* the CheckableTableWidgetItem instances
    dbprefs,                \* gui.current_db.prefs: key -> raw value
    viewer,                 \* the PrefsViewerDialog and its modal prompts
    events                  \* what _clear_settings has done so far, in order

vars == <<plugin_name, plugin_icon_resources, existing, call, gprefs, dialogs,
          closed, items, dbprefs, viewer, events>>

\* What the operations of one component leave alone: the other components.
notIcon == <<gprefs, dialogs, closed, items, dbprefs, viewer, events>>
notGeom == <<plugin_name, plugin_icon_resources, existing, call, items, dbprefs,
             viewer, events>>
notItem == <<plugin_name, plugin_icon_resources, existing, call, gprefs, dialogs,
             closed, dbprefs, viewer, events>>
notPref == <<plugin_name, plugin_icon_resources, existing, call, dialogs, closed,
             items>>

(***************************************************************************)
(* Strings                                                                 *)
(***************************************************************************)

\* Python's None where a string is expected, and its truth value.
NoneStr == <<"None">>

Truthy(s) == s # NoneStr /\ s # <<>>

\* str.startswith
startswith(s, p) == Len(s) >= Len(p) /\ SubSeq(s, 1, Len(p)) = p

\* str.replace(old, new) for a non-empty old: the non-overlapping
\* occurrences, found left to right, and no rescan of what was put in.
RECURSIVE replace(_, _, _)
replace(s, old, new) ==
    IF Len(s) < Len(old) THEN s
    ELSE IF startswith(s, old)
         THEN new \o replace(SubSeq(s, Len(old) + 1, Len(s)), old, new)
         ELSE <<s[1]>> \o replace(Tail(s), old, new)

\* os.path.join of two components (posixpath)
join(a, b) ==
    IF startswith(b, <<"/">>) THEN b
    ELSE IF a = <<>> \/ a[Len(a)] = "/" THEN a \o b
    ELSE a \o <<"/">> \o b

\* All sequences over S of length at most n.
RECURSIVE SeqsUpTo(_, _)
SeqsUpTo(S, n) ==
    IF n = 0 THEN {<<>>}
    ELSE LET shorter == SeqsUpTo(S, n - 1)
         IN  shorter \cup {Append(s, c) : s \in shorter, c \in S}

(***************************************************************************)
(* Icon resolution                                                         *)
(***************************************************************************)

MaxNameLen == 2

images_prefix == <<"images", "/">>

config_dir == <<"config_dir">>

\* calibre's builtin I(name): the path of a host image resource
I(name) == <<"I:">> \o name

\* The values the icon functions return.
None == [type |-> "None", from |-> "", src |-> <<>>]
QPixmapLoad(path) == [type |-> "QPixmap", from |-> "file", src |-> path]
QPixmapLoadFromData(data) == [type |-> "QPixmap", from |-> "data", src |-> data]
QIconOfPixmap(pixmap) == [type |-> "QIcon", from |-> pixmap.from, src |-> pixmap.src]
QIconOfPath(path) == [type |-> "QIcon", from |-> "path", src |-> path]
QIconEmpty == [type |-> "QIcon", from |-> "empty", src |-> <<>>]

\* get_local_images_dir on a POSIX build (iswindows false: no normpath)
get_local_images_dir(subfolder) ==
    LET images_dir == join(config_dir, <<"resources", "/", "images">>)
    IN  IF Truthy(subfolder) THEN join(images_dir, subfolder) ELSE images_dir

local_image_path(name, icon_name) ==
    join(get_local_images_dir(name), replace(icon_name, images_prefix, <<>>))

\* get_pixmap with the resource map consulted before the skin folder
get_pixmap_bundled_first(name, resources, exists, icon_name) ==
    IF ~startswith(icon_name, images_prefix)
    THEN QPixmapLoad(I(icon_name))
    ELSE IF icon_name \in DOMAIN resources
         THEN QPixmapLoadFromData(resources[icon_name])
         ELSE IF Truthy(name) /\ local_image_path(name, icon_name) \in exists
              THEN QPixmapLoad(local_image_path(name, icon_name))
              ELSE None

\* get_pixmap without the early return for names outside 'images/'
get_pixmap_no_prefix_test(name, resources, exists, icon_name) ==
    IF Truthy(name) /\ local_image_path(name, icon_name) \in exists
    THEN QPixmapLoad(local_image_path(name, icon_name))
    ELSE IF icon_name \in DOMAIN resources
         THEN QPixmapLoadFromData(resources[icon_name])
         ELSE IF ~startswith(icon_name, images_prefix)
              THEN QPixmapLoad(I(icon_name))
              ELSE None

get_pixmap(name, resources, exists, icon_name) ==
    IF ~startswith(icon_name, images_prefix)
    THEN QPixmapLoad(I(icon_name))
    ELSE IF Truthy(name) /\ local_image_path(name, icon_name) \in exists
         THEN QPixmapLoad(local_image_path(name, icon_name))
         ELSE IF icon_name \in DOMAIN resources
              THEN QPixmapLoadFromData(resources[icon_name])
              ELSE None

\* get_icon handing on get_pixmap's None
get_icon_propagates_none(name, resources, exists, icon_name) ==
    IF Truthy(icon_name)
    THEN LET pixmap == get_pixmap(name, resources, exists, icon_name)
         IN  IF pixmap = None THEN None ELSE QIconOfPixmap(pixmap)
    ELSE QIconEmpty

get_icon(name, resources, exists, icon_name) ==
    IF Truthy(icon_name)
    THEN LET pixmap == get_pixmap(name, resources, exists, icon_name)
         IN  IF pixmap = None THEN QIconOfPath(I(icon_name))
             ELSE QIconOfPixmap(pixmap)
    ELSE QIconEmpty

\* ImageTitleLayout.__init__: the pixmap title_image_label ends up with
\* (None: setPixmap was never called on it).
ImageTitleLayout_pixmap(name, resources, exists, icon_name) ==
    LET pixmap == get_pixmap(name, resources, exists, icon_name)
        fallback == get_pixmap(name, resources, exists, <<"library.png">>)
        unset == None
    IN  IF pixmap = None
        THEN unset      \* fallback is assigned to the local and dropped
        ELSE pixmap     \* title_image_label.setPixmap(pixmap)

\* The inputs.
NameTokens == {"images", "/", "x"}
IconNames ==
    SeqsUpTo(NameTokens, MaxNameLen)
        \cup {<<"images", "/", "x">>, <<"images", "/", "images", "/", "x">>,
              <<"library.png">>, <<"trash.png">>}
PluginNames == {NoneStr, <<>>, <<"P">>}
ResourceNames == {<<"images", "/", "x">>, <<"x">>, <<"images", "/">>}
ResourceData == {<<"png-a">>, <<"png-b">>}
ResourceMaps ==
    UNION {[D -> ResourceData] : D \in {S \in SUBSET ResourceNames : Cardinality(S) <= 1}}
SkinPaths ==
    {local_image_path(<<"P">>, <<"images", "/", "x">>),
     local_image_path(NoneStr, <<"images", "/", "x">>)}

NoCall == [op |-> "none", arg |-> <<>>, result |-> None]

IconInit ==
    /\ plugin_name = NoneStr
    /\ plugin_icon_resources = <<>>
    /\ existing = {}
    /\ call = NoCall

set_plugin_icon_resources(name, resources) ==
    /\ plugin_name' = name
    /\ plugin_icon_resources' = resources
    /\ UNCHANGED <<existing, call, notIcon>>

\* The user puts an override image into a skin folder, or removes one.
SkinFileChange(path) ==
    /\ existing' = IF path \in existing THEN existing \ {path} ELSE existing \cup {path}
    /\ UNCHANGED <<plugin_name, plugin_icon_resources, call, notIcon>>

CallGetPixmap(icon_name) ==
    /\ call' = [op |-> "get_pixmap", arg |-> icon_name,
                result |-> get_pixmap(plugin_name, plugin_icon_resources,
                                      existing, icon_name)]
    /\ UNCHANGED <<plugin_name, plugin_icon_resources, existing, notIcon>>

CallGetIcon(icon_name) ==
    /\ call' = [op |-> "get_icon", arg |-> icon_name,
                result |-> get_icon(plugin_name, plugin_icon_resources,
                                    existing, icon_name)]
    /\ UNCHANGED <<plugin_name, plugin_icon_resources, existing, notIcon>>

NewImageTitleLayout(icon_name) ==
    /\ call' = [op |-> "ImageTitleLayout", arg |-> icon_name,
                result |-> ImageTitleLayout_pixmap(plugin_name, plugin_icon_resources,
                                                   existing, icon_name)]
    /\ UNCHANGED <<plugin_name, plugin_icon_resources, existing, notIcon>>

IconNext ==
    \/ \E name \in PluginNames, resources \in ResourceMaps :
          set_plugin_icon_resources(name, resources)
    \/ \E path \in SkinPaths : SkinFileChange(path)
    \/ \E icon_name \in IconNames : CallGetPixmap(icon_name)
    \/ \E icon_name \in IconNames \cup {NoneStr} : CallGetIcon(icon_name)
    \/ \E icon_name \in IconNames : NewImageTitleLayout(icon_name)

(***************************************************************************)
(* SizePersistedDialog                                                     *)
(***************************************************************************)

MaxGeom == 2

sizeHint == 0

Geometries == 0 .. MaxGeom

Dialogs == {"d1", "d2"}

PrefKeys == {<<"Keyboard shortcut dialog">>, <<"Prefs Viewer dialog">>}

\* The value gprefs.get(key, None) gives for an absent key.
NoneBlob == <<>>

\* bytearray(self.saveGeometry()): the serialized geometry
saveGeometry(geometry) == <<"QByteArray", geometry>>

\* self.restoreGeometry(blob): the geometry the blob holds
restoreGeometry(blob) == blob[2]

gprefs_get(store, key, default) ==
    IF key \in DOMAIN store THEN store[key] ELSE default

\* a store that keeps the value a key already has
gprefs_keeps_first(store, key, value) ==
    [k \in DOMAIN store \cup {key} |->
        IF k \in DOMAIN store THEN store[k] ELSE value]

gprefs_set(store, key, value) ==
    [k \in DOMAIN store \cup {key} |-> IF k = key THEN value ELSE store[k]]

NoClose == [by |-> "nobody", geometry |-> sizeHint]

NoDialog ==
    [alive |-> FALSE, unique_pref_name |-> <<>>, geom |-> NoneBlob,
     geometry |-> sizeHint, sized |-> "no", seen |-> NoClose, absent |-> FALSE]

GeomStores ==
    UNION {[D -> {saveGeometry(g) : g \in Geometries}] : D \in SUBSET PrefKeys}

GeomInit ==
    /\ gprefs \in GeomStores
    /\ dialogs = [d \in Dialogs |-> NoDialog]
    /\ closed = [k \in PrefKeys |-> NoClose]

\* SizePersistedDialog.__init__; geometry is the size the toolkit gives the
\* new window.  seen and absent record what was under the key at this moment.
SizePersistedDialog_init(d, unique_pref_name, geometry) ==
    /\ ~dialogs[d].alive
    /\ dialogs' = [dialogs EXCEPT ![d] =
            [alive |-> TRUE, unique_pref_name |-> unique_pref_name,
             geom |-> gprefs_get(gprefs, unique_pref_name, NoneBlob),
             geometry |-> geometry, sized |-> "no",
             seen |-> closed[unique_pref_name],
             absent |-> unique_pref_name \notin DOMAIN gprefs]]
    /\ UNCHANGED <<gprefs, closed, notGeom>>

\* resize_dialog looking the key up again instead of using self.geom
resize_dialog_rereads(d) ==
    /\ dialogs[d].alive
    /\ LET now == gprefs_get(gprefs, dialogs[d].unique_pref_name, NoneBlob)
       IN  dialogs' = [dialogs EXCEPT ![d] =
               IF now = NoneBlob
               THEN [@ EXCEPT !.geometry = sizeHint, !.sized = "sizeHint"]
               ELSE [@ EXCEPT !.geometry = restoreGeometry(now),
                              !.sized = "restoreGeometry"]]
    /\ UNCHANGED <<gprefs, closed, notGeom>>

resize_dialog(d) ==
    /\ dialogs[d].alive
    /\ LET geom == dialogs[d].geom
       IN  dialogs' = [dialogs EXCEPT ![d] =
               IF geom = NoneBlob
               THEN [@ EXCEPT !.geometry = sizeHint, !.sized = "sizeHint"]
               ELSE [@ EXCEPT !.geometry = restoreGeometry(geom),
                              !.sized = "restoreGeometry"]]
    /\ UNCHANGED <<gprefs, closed, notGeom>>

\* The user moves or resizes the window.
UserResizes(d, geometry) ==
    /\ dialogs[d].alive
    /\ dialogs' = [dialogs EXCEPT ![d].geometry = geometry]
    /\ UNCHANGED <<gprefs, closed, notGeom>>

\* The finished signal: dialog_closing
dialog_closing(d) ==
    /\ dialogs[d].alive
    /\ LET geom == saveGeometry(dialogs[d].geometry)
       IN  gprefs' = gprefs_set(gprefs, dialogs[d].unique_pref_name, geom)
    /\ closed' = [closed EXCEPT ![dialogs[d].unique_pref_name] =
                      [by |-> d, geometry |-> dialogs[d].geometry]]
    /\ UNCHANGED <<dialogs, notGeom>>

GeomNext ==
    \/ \E d \in Dialogs, k \in PrefKeys, g \in Geometries :
          SizePersistedDialog_init(d, k, g)
    \/ \E d \in Dialogs : resize_dialog(d)
    \/ \E d \in Dialogs, g \in Geometries : UserResizes(d, g)
    \/ \E d \in Dialogs : dialog_closing(d)

(***************************************************************************)
(* CheckableTableWidgetItem                                                *)
(***************************************************************************)

ItemIds == {"i1", "i2"}

\* The values of the checked argument, and of get_boolean_value().
PyValues == {"True", "False", "None"}

CheckStates == {"Unchecked", "PartiallyChecked", "Checked"}

NoItem ==
    [made |-> FALSE, checked |-> "False", is_tristate |-> FALSE,
     tristate_flag |-> FALSE, checkState |-> "Unchecked", touched |-> FALSE,
     returned |-> "unread"]

\* the constructor's check state without the is_tristate test
init_checkState_ignores_tristate(checked, is_tristate) ==
    IF checked = "True" THEN "Checked"
    ELSE IF checked = "None" THEN "PartiallyChecked"
    ELSE "Unchecked"

init_checkState(checked, is_tristate) ==
    IF checked = "True" THEN "Checked"
    ELSE IF is_tristate /\ checked = "None" THEN "PartiallyChecked"
    ELSE "Unchecked"

boolean_value(checkState) ==
    IF checkState = "PartiallyChecked" THEN "None"
    ELSE IF checkState = "Checked" THEN "True" ELSE "False"

ItemInit == items = [i \in ItemIds |-> NoItem]

CheckableTableWidgetItem_init(i, checked, is_tristate) ==
    /\ ~items[i].made
    /\ items' = [items EXCEPT ![i] =
            [made |-> TRUE, checked |-> checked, is_tristate |-> is_tristate,
             tristate_flag |-> is_tristate,
             checkState |-> init_checkState(checked, is_tristate),
             touched |-> FALSE, returned |-> "unread"]]
    /\ UNCHANGED notItem

\* The table or the user changes the check state (QTableWidgetItem.setCheckState).
setCheckState(i, state) ==
    /\ items[i].made
    /\ items' = [items EXCEPT ![i].checkState = state, ![i].touched = TRUE]
    /\ UNCHANGED notItem

get_boolean_value(i) ==
    /\ items[i].made
    /\ items' = [items EXCEPT ![i].returned = boolean_value(items[i].checkState)]
    /\ UNCHANGED notItem

ItemNext ==
    \/ \E i \in ItemIds, checked \in PyValues, is_tristate \in BOOLEAN :
          CheckableTableWidgetItem_init(i, checked, is_tristate)
    \/ \E i \in ItemIds, state \in CheckStates : setCheckState(i, state)
    \/ \E i \in ItemIds : get_boolean_value(i)

(***************************************************************************)
(* PrefsViewerDialog                                                       *)
(***************************************************************************)

MaxKeyLen == 2

MaxPrefs == 2

KeyTokens == {":", "a"}

\* The order of the tokens as Python compares the strings.
TokenRank(t) == IF t = ":" THEN 1 ELSE IF t = "a" THEN 2 ELSE 3

RECURSIVE str_less(_, _)
str_less(a, b) ==
    IF b = <<>> THEN FALSE
    ELSE IF a = <<>> THEN TRUE
    ELSE IF a[1] = b[1] THEN str_less(Tail(a), Tail(b))
    ELSE TokenRank(a[1]) < TokenRank(b[1])

\* sorted(S) for a set of distinct strings
RECURSIVE sorted(_)
sorted(S) ==
    IF S = {} THEN <<>>
    ELSE LET least == CHOOSE a \in S : \A b \in S \ {a} : str_less(a, b)
         IN  <<least>> \o sorted(S \ {least})

\* the prefix without its closing colon
get_ns_prefix_no_colon(namespace) == <<"namespaced", ":">> \o namespace

\* PrefsViewerDialog._get_ns_prefix
get_ns_prefix(namespace) == <<"namespaced", ":">> \o namespace \o <<":">>

\* The list _populate_settings puts into keys_list.
populate_settings(prefs, namespace) ==
    LET ns_prefix == get_ns_prefix(namespace)
    IN  sorted({SubSeq(k, Len(ns_prefix) + 1, Len(k)) :
                    k \in {j \in DOMAIN prefs : startswith(j, ns_prefix)}})

\* The store after "for k in keys: del self.db.prefs[k]".
delete_keys(prefs, keys) == [k \in DOMAIN prefs \ keys |-> prefs[k]]

\* a prompt whose answer is not looked at
confirm_ignored(answer) == TRUE

\* confirm(message, name, parent): what the prompt returns for the user's answer
confirm(answer) == answer

Namespaces == {<<"a">>, <<"a", "a">>}
PrefValues == {"v1", "v2"}
KeyHeads == {<<>>, <<"namespaced", ":">>, <<"namespaced", ":", "a">>}
PrefNames ==
    {h \o t : h \in KeyHeads, t \in SeqsUpTo(KeyTokens, MaxKeyLen)} \ {<<>>}
Buttons == {"Restart calibre now", "OK"}

viewer_pref_name == <<"Prefs Viewer dialog">>

NoViewer ==
    [pc |-> "none", namespace |-> <<>>, keys_list |-> <<>>, geom |-> NoneBlob,
     geometry |-> sizeHint, answer |-> "none", do_restart |-> FALSE,
     button |-> "none"]

PrefInit ==
    /\ dbprefs = <<>>
    /\ viewer = NoViewer
    /\ events = <<>>

\* The plugin stores a preference: db.prefs[k] = v
PrefSet(k, v) ==
    /\ viewer.pc = "none"
    /\ k \in DOMAIN dbprefs \/ Cardinality(DOMAIN dbprefs) < MaxPrefs
    /\ dbprefs' = [j \in DOMAIN dbprefs \cup {k} |-> IF j = k THEN v ELSE dbprefs[j]]
    /\ UNCHANGED <<viewer, events, gprefs, notPref>>

\* PrefsViewerDialog.__init__ and the dialog being shown
PrefsViewerDialog_init(namespace) ==
    /\ viewer.pc = "none"
    /\ LET geom == gprefs_get(gprefs, viewer_pref_name, NoneBlob)
       IN  viewer' = [pc |-> "open", namespace |-> namespace,
                      keys_list |-> populate_settings(dbprefs, namespace),
                      geom |-> geom,
                      geometry |-> IF geom = NoneBlob THEN sizeHint
                                   ELSE restoreGeometry(geom),
                      answer |-> "none", do_restart |-> FALSE,
                      button |-> "none"]
    /\ events' = Append(events, "populate")
    /\ UNCHANGED <<dbprefs, gprefs, notPref>>

\* The OK button: accept(), and dialog_closing on the finished signal
viewer_accept ==
    /\ viewer.pc = "open"
    /\ viewer' = [viewer EXCEPT !.pc = "closed"]
    /\ events' = Append(events, "close")
    /\ gprefs' = gprefs_set(gprefs, viewer_pref_name, saveGeometry(viewer.geometry))
    /\ UNCHANGED <<dbprefs, notPref>>

\* _clear_settings up to the confirmation prompt being on the screen
clear_settings_clicked ==
    /\ viewer.pc = "open"
    /\ viewer' = [viewer EXCEPT !.pc = "confirm"]
    /\ UNCHANGED <<dbprefs, events, gprefs, notPref>>

\* _clear_settings from the answer to the prompt up to d.exec_()
clear_settings_answered(answer) ==
    /\ viewer.pc = "confirm"
    /\ IF ~confirm(answer)
       THEN /\ viewer' = [viewer EXCEPT !.pc = "open", !.answer = "no"]
            /\ UNCHANGED <<dbprefs, events>>
       ELSE LET ns_prefix == get_ns_prefix(viewer.namespace)
                keys == {k \in DOMAIN dbprefs : startswith(k, ns_prefix)}
                after == delete_keys(dbprefs, keys)
            IN  /\ dbprefs' = after
                /\ viewer' = [viewer EXCEPT
                        !.pc = "info",
                        !.answer = IF answer THEN "yes" ELSE "no",
                        !.keys_list = populate_settings(after, viewer.namespace),
                        !.do_restart = FALSE]
                /\ events' = events \o <<"delete", "populate", "info_dialog">>
    /\ UNCHANGED <<gprefs, notPref>>

\* "if d.do_restart: self.gui.quit(restart=True)"
quit_if(do_restart) == IF do_restart THEN <<"quit">> ELSE <<>>

\* the quit requested before the viewer is closed
close_after_quit(do_restart) == quit_if(do_restart) \o <<"close">>

\* "self.close()" and then the conditional quit
close_then_quit(do_restart) == <<"close">> \o quit_if(do_restart)

\* _clear_settings from the info dialog being dismissed to its end
clear_settings_dismissed(button) ==
    /\ viewer.pc = "info"
    /\ LET do_restart == (button = "Restart calibre now")
       IN  /\ viewer' = [viewer EXCEPT !.pc = "closed", !.do_restart = do_restart,
                                       !.button = button]
           /\ events' = events \o <<"info_dismissed">> \o close_then_quit(do_restart)
    /\ gprefs' = gprefs_set(gprefs, viewer_pref_name, saveGeometry(viewer.geometry))
    /\ UNCHANGED <<dbprefs, notPref>>

PrefNext ==
    \/ \E k \in PrefNames, v \in PrefValues : PrefSet(k, v)
    \/ \E namespace \in Namespaces : PrefsViewerDialog_init(namespace)
    \/ viewer_accept
    \/ clear_settings_clicked
    \/ \E answer \in BOOLEAN : clear_settings_answered(answer)
    \/ \E button \in Buttons : clear_settings_dismissed(button)

(***************************************************************************)
(* Specifications: one per component, the others at rest                   *)
(***************************************************************************)

GeomRest ==
    /\ gprefs = <<>>
    /\ dialogs = [d \in Dialogs |-> NoDialog]
    /\ closed = [k \in PrefKeys |-> NoClose]

InitIcon == IconInit /\ GeomRest /\ ItemInit /\ PrefInit
SpecIcon == InitIcon /\ [][IconNext]_vars

InitGeom == IconInit /\ GeomInit /\ ItemInit /\ PrefInit
SpecGeom == InitGeom /\ [][GeomNext]_vars

InitItem == IconInit /\ GeomRest /\ ItemInit /\ PrefInit
SpecItem == InitItem /\ [][ItemNext]_vars

InitPrefs == IconInit /\ GeomRest /\ ItemInit /\ PrefInit
SpecPrefs == InitPrefs /\ [][PrefNext]_vars

(***************************************************************************)
(* Icon resolution: C1, C5, C6, C10                                        *)
(***************************************************************************)

\* The step is a call of op (a call that repeats the last one stutters).
IsCall(op) == call' # call /\ call'.op = op

\* The override file of icon_name in the skin folder of the plugin.
SkinFile(icon_name) == local_image_path(plugin_name, icon_name)

\* What get_icon makes of a pixmap, and get_pixmap leaves as it is.
Wrapped(op, pixmap) == IF op = "get_icon" THEN QIconOfPixmap(pixmap) ELSE pixmap

\* C1: for a name prefixed with 'images/' and a plugin name that is set,
\* get_pixmap and get_icon return the skin-folder image when the override
\* file exists, whether or not the name is bundled too; else the bundled
\* image when the name is in the resource map; else get_icon returns the
\* icon of the host's icon cache.
C1_IconPriority ==
    [][\A op \in {"get_pixmap", "get_icon"} :
          (IsCall(op) /\ startswith(call'.arg, images_prefix) /\ Truthy(plugin_name))
          => LET icon_name == call'.arg
             IN  IF SkinFile(icon_name) \in existing
                 THEN call'.result = Wrapped(op, QPixmapLoad(SkinFile(icon_name)))
                 ELSE IF icon_name \in DOMAIN plugin_icon_resources
                      THEN call'.result =
                             Wrapped(op, QPixmapLoadFromData(plugin_icon_resources[icon_name]))
                      ELSE op = "get_icon" => call'.result = QIconOfPath(I(icon_name))
      ]_vars

\* C1 witness: get_icon has returned the skin image of a name that is
\* bundled as well.
C1_Witness ==
    /\ call.op = "get_icon"
    /\ startswith(call.arg, images_prefix)
    /\ Truthy(plugin_name)
    /\ SkinFile(call.arg) \in existing
    /\ call.arg \in DOMAIN plugin_icon_resources
    /\ call.result = QIconOfPixmap(QPixmapLoad(SkinFile(call.arg)))

\* C5 as stated: get_pixmap returns None exactly when the name is under
\* 'images/' and neither the skin-folder override file nor a bundled
\* resource of that name exists; any other name is loaded from the host's
\* icon cache, whatever the skin folder and the resource map hold.
C5_Original ==
    [][IsCall("get_pixmap")
          => LET icon_name == call'.arg
             IN  /\ call'.result = None
                      <=> /\ startswith(icon_name, images_prefix)
                          /\ SkinFile(icon_name) \notin existing
                          /\ icon_name \notin DOMAIN plugin_icon_resources
                 /\ ~startswith(icon_name, images_prefix)
                      => call'.result = QPixmapLoad(I(icon_name))
      ]_vars

\* C5 amended: get_pixmap returns None exactly when the name is under
\* 'images/', no bundled resource of that name exists, and either no plugin
\* name is set or the skin-folder override file does not exist; any other
\* name is loaded from the host's icon cache, whatever the skin folder and
\* the resource map hold.
C5_PixmapAbsence ==
    [][IsCall("get_pixmap")
          => LET icon_name == call'.arg
             IN  /\ call'.result = None
                      <=> /\ startswith(icon_name, images_prefix)
                          /\ ~Truthy(plugin_name) \/ SkinFile(icon_name) \notin existing
                          /\ icon_name \notin DOMAIN plugin_icon_resources
                 /\ ~startswith(icon_name, images_prefix)
                      => call'.result = QPixmapLoad(I(icon_name))
      ]_vars

\* C5 witness: a name without the prefix that is in the resource map came
\* from the host's icon cache.
C5_Witness ==
    /\ call.op = "get_pixmap"
    /\ ~startswith(call.arg, images_prefix)
    /\ call.arg \in DOMAIN plugin_icon_resources
    /\ call.result = QPixmapLoad(I(call.arg))

\* C6: get_icon always returns an icon: the empty icon for an empty or
\* missing name, the icon of the host's icon cache when get_pixmap reports
\* absence.
C6_IconNeverNull ==
    [][IsCall("get_icon")
          => LET icon_name == call'.arg
                 pixmap == get_pixmap(plugin_name, plugin_icon_resources,
                                      existing, icon_name)
             IN  /\ call'.result.type = "QIcon"
                 /\ ~Truthy(icon_name) => call'.result = QIconEmpty
                 /\ (Truthy(icon_name) /\ pixmap = None)
                      => call'.result = QIconOfPath(I(icon_name))
      ]_vars

\* C6 witness: get_icon gave the host icon for a name under 'images/' that
\* is neither in the skin folder nor bundled.
C6_Witness ==
    /\ call.op = "get_icon"
    /\ startswith(call.arg, images_prefix)
    /\ call.result = QIconOfPath(I(call.arg))

\* C10: ImageTitleLayout always puts a pixmap on its title label: the one
\* get_pixmap resolves for the icon name, or the pixmap of the host icon
\* 'library.png' when get_pixmap returns None.
C10_TitleImageAlwaysSet ==
    [][IsCall("ImageTitleLayout")
          => LET pixmap == get_pixmap(plugin_name, plugin_icon_resources,
                                      existing, call'.arg)
             IN  /\ call'.result # None
                 /\ pixmap # None => call'.result = pixmap
                 /\ pixmap = None => call'.result = QPixmapLoad(I(<<"library.png">>))
      ]_vars

(***************************************************************************)
(* Geometry persistence: C2, C7                                            *)
(***************************************************************************)

\* C2 as stated: once dialog_closing has saved geometry g under key k,
\* resize_dialog of a dialog with key k reproduces g; for a key that was
\* never saved it restores nothing and sizes the dialog to sizeHint.
C2_Original ==
    [][\A d \in Dialogs :
          resize_dialog(d)
          => LET k == dialogs[d].unique_pref_name
             IN  /\ closed[k] # NoClose
                      => dialogs'[d].geometry = closed[k].geometry
                 /\ k \notin DOMAIN gprefs
                      => /\ dialogs'[d].sized = "sizeHint"
                         /\ dialogs'[d].geometry = sizeHint
      ]_vars

\* C2 amended: resize_dialog reproduces the geometry that the last
\* dialog_closing before the dialog's construction saved under its key; a
\* dialog constructed while its key was absent from the store restores
\* nothing and is sized to sizeHint.
C2_RoundTrip ==
    [][\A d \in Dialogs :
          resize_dialog(d)
          => /\ dialogs[d].seen # NoClose
                  => /\ dialogs'[d].sized = "restoreGeometry"
                     /\ dialogs'[d].geometry = dialogs[d].seen.geometry
             /\ dialogs[d].absent
                  => /\ dialogs'[d].sized = "sizeHint"
                     /\ dialogs'[d].geometry = sizeHint
      ]_vars

\* C2 witness: a dialog constructed after another dialog saved a geometry
\* other than sizeHint under its key has been restored to that geometry.
C2_Witness ==
    \E d \in Dialogs :
        /\ dialogs[d].alive
        /\ dialogs[d].seen # NoClose
        /\ dialogs[d].seen.by # d
        /\ dialogs[d].seen.geometry # sizeHint
        /\ dialogs[d].sized = "restoreGeometry"
        /\ dialogs[d].geometry = dialogs[d].seen.geometry

\* The store holds, under every key some dialog has closed with, the
\* geometry of the dialog that closed with it last.
LastWriteStored ==
    \A k \in PrefKeys :
        closed[k] # NoClose
        => /\ k \in DOMAIN gprefs
           /\ gprefs[k] = saveGeometry(closed[k].geometry)

\* A dialog_closing step writes the closing dialog's geometry under its own
\* key and leaves every other key as it was; no other step writes the store.
OnlyOwnKeyWritten ==
    /\ \A d \in Dialogs :
          dialog_closing(d)
          => LET k == dialogs[d].unique_pref_name
             IN  /\ DOMAIN gprefs' = DOMAIN gprefs \cup {k}
                 /\ gprefs'[k] = saveGeometry(dialogs[d].geometry)
                 /\ \A j \in DOMAIN gprefs \ {k} : gprefs'[j] = gprefs[j]
    /\ (\A d \in Dialogs : ~dialog_closing(d)) => gprefs' = gprefs

\* C7: last write wins: the geometry stored under key k is that of the
\* dialog with key k that closed most recently, and each dialog_closing
\* writes its own key only.
C7_LastWriteWins == []LastWriteStored /\ [][OnlyOwnKeyWritten]_vars

\* C7 witness: two dialogs share a key, both have closed, and the store
\* holds the geometry of the later one, which differs from the other's;
\* the other key is stored too.
C7_Witness ==
    \E k \in PrefKeys, d, e \in Dialogs :
        /\ d # e
        /\ dialogs[d].alive /\ dialogs[e].alive
        /\ dialogs[d].unique_pref_name = k /\ dialogs[e].unique_pref_name = k
        /\ closed[k].by = d
        /\ dialogs[d].geometry # dialogs[e].geometry
        /\ gprefs[k] = saveGeometry(dialogs[d].geometry)
        /\ DOMAIN gprefs = PrefKeys

(***************************************************************************)
(* CheckableTableWidgetItem: C3                                            *)
(***************************************************************************)

\* What a new item reports, by its constructor arguments.
FreshValue(checked, is_tristate) ==
    IF checked = "True" THEN "True"
    ELSE IF is_tristate /\ checked = "None" THEN "None"
    ELSE "False"

ReportsAsConstructed ==
    \A i \in ItemIds :
        (items[i].made /\ ~items[i].touched /\ items[i].returned # "unread")
        => /\ items[i].returned = FreshValue(items[i].checked, items[i].is_tristate)
           /\ ~items[i].is_tristate => items[i].returned # "None"

NoneIffPartiallyChecked ==
    \A i \in ItemIds :
        get_boolean_value(i)
        => (items'[i].returned = "None" <=> items[i].checkState = "PartiallyChecked")

\* C3: right after construction get_boolean_value() is True for
\* checked=True, None for a tristate item with checked=None, False for the
\* default and for a non-tristate item with checked=None; and it returns
\* None exactly when the check state is PartiallyChecked.
C3_BooleanValue == []ReportsAsConstructed /\ [][NoneIffPartiallyChecked]_vars

\* C3 witness: a new non-tristate item constructed with checked=None has
\* reported False, and a new tristate one None.
C3_Witness ==
    \E i, j \in ItemIds :
        /\ items[i].made /\ ~items[i].touched
        /\ items[i].checked = "None" /\ ~items[i].is_tristate
        /\ items[i].returned = "False"
        /\ items[j].made /\ ~items[j].touched
        /\ items[j].checked = "None" /\ items[j].is_tristate
        /\ items[j].returned = "None"

(***************************************************************************)
(* PrefsViewerDialog._clear_settings: C4, C8, C9                           *)
(***************************************************************************)

\* The keys of namespace N are those that start with 'namespaced:N:'.
InNamespace(k, N) == startswith(k, <<"namespaced", ":">> \o N \o <<":">>)

\* The step in which the user answers the confirmation prompt.
Answered(answer) ==
    viewer.pc = "confirm" /\ viewer'.pc # "confirm" /\ viewer'.answer = answer

\* C4: a confirmed clear for namespace N leaves no key that starts with
\* 'namespaced:N:' and leaves every other key in the store with its value.
C4_ClearsExactlyNamespace ==
    [][Answered("yes")
          => /\ \A k \in DOMAIN dbprefs' : ~InNamespace(k, viewer.namespace)
             /\ \A k \in DOMAIN dbprefs :
                   ~InNamespace(k, viewer.namespace)
                   => k \in DOMAIN dbprefs' /\ dbprefs'[k] = dbprefs[k]
             /\ DOMAIN dbprefs' \subseteq DOMAIN dbprefs
      ]_vars

\* C4 witness: after a confirmed clear for namespace 'a' the store still
\* holds a key of namespace 'aa' and nothing is left to list.
C4_Witness ==
    /\ viewer.pc = "info"
    /\ viewer.answer = "yes"
    /\ viewer.namespace = <<"a">>
    /\ \E k \in DOMAIN dbprefs : InNamespace(k, <<"a", "a">>)
    /\ viewer.keys_list = <<>>

\* C8: when the user declines the prompt nothing changes: no key is
\* deleted, the key list is not repopulated, the dialog stays open and no
\* restart is requested.
C8_DeclineChangesNothing ==
    [][Answered("no")
          => /\ dbprefs' = dbprefs
             /\ viewer'.keys_list = viewer.keys_list
             /\ events' = events
             /\ viewer'.pc = "open"
             /\ gprefs' = gprefs
      ]_vars

\* C8 witness: the prompt was declined and the viewer still lists the keys
\* of its namespace.
C8_Witness ==
    /\ viewer.pc = "open"
    /\ viewer.answer = "no"
    /\ viewer.keys_list # <<>>
    /\ \E k \in DOMAIN dbprefs : InNamespace(k, viewer.namespace)

\* C9: after a confirmed clear the keys are deleted and the (now empty)
\* list repopulated before the restart-request dialog is shown; the viewer
\* is closed after that dialog is dismissed, whichever way; and the host is
\* asked to quit with restart exactly when the user clicked 'Restart
\* calibre now', and only after the viewer was closed.
C9_ClearOrder ==
    /\ viewer.pc = "info"
          => /\ events = <<"populate", "delete", "populate", "info_dialog">>
             /\ viewer.keys_list = <<>>
             /\ \A k \in DOMAIN dbprefs : ~InNamespace(k, viewer.namespace)
    /\ (viewer.pc = "closed" /\ viewer.answer = "yes")
          => events = <<"populate", "delete", "populate", "info_dialog",
                        "info_dismissed", "close">>
                      \o (IF viewer.button = "Restart calibre now"
                          THEN <<"quit">> ELSE <<>>)

\* C9 witness: the user clicked 'Restart calibre now' and the host was
\* asked to quit last, after the close.
C9_Witness ==
    /\ viewer.pc = "closed"
    /\ viewer.button = "Restart calibre now"
    /\ Len(events) = 7
    /\ events[6] = "close"
    /\ events[7] = "quit"

====
